---------------------------- MODULE Spec2Model ----------------------------
(***************************************************************************)
(* A model of ckalei::CodeGenVisitor (compiler_lib/src/visitor/            *)
(* codegenvisitor.cpp): the visitor that lowers Kaleidoscope AST nodes to  *)
(* LLVM IR, and its two entry points getAssembly and evaluate.             *)
(*                                                                         *)
(* The visitor's members are the variables of the module.  Each visit      *)
(* method is an operator from a visitor state (a record of the members) to *)
(* the visitor state after the call; accept() dispatches on the node type. *)
(* The loops of getAssembly and evaluate advance one input node per step.  *)
(*                                                                         *)
(* Abstractions:                                                           *)
(*  - a double is an integer; a printed function is the list of its lines; *)
(*  - an LLVM value name is a pair <<base, k>>: k = 0 is the name asked    *)
(*    for, k > 0 the name LLVM gives when base is already taken in the     *)
(*    function (base followed by a number).  Source variables are never    *)
(*    spelled like such a renamed value;                                   *)
(*  - undefined behaviour (a null pointer handed to the IR builder, a      *)
(*    failed assert, a malformed function handed to the pass manager or to *)
(*    the JIT) either kills the process (crashed) or goes on with a        *)
(*    garbage value: the action's parameter ub picks the outcome;          *)
(*  - trace is a history variable: the events (visits entered and left,    *)
(*    instructions emitted, errors logged) of the node handled last.       *)
(***************************************************************************)
EXTENDS Integers, Sequences, FiniteSets, TLC

VARIABLES
    module,         \* std::unique_ptr<llvm::Module>: its functions
    functionProtos, \* std::map<std::string, std::unique_ptr<PrototypeAST>>
    namedValues,    \* std::map<std::string, llvm::AllocaInst*>
    lastValue,      \* llvm::Value*
    lastFunction,   \* llvm::Function*
    builder,        \* llvm::IRBuilder<>: its insertion point
    passManager,    \* llvm::legacy::FunctionPassManager: its passes
    jitTopLevel,    \* bool
    debug,          \* bool
    evaluationRes,  \* std::unique_ptr<std::vector<double>>
    jit,            \* llvm::orc::KaleidoscopeJIT: the modules added
    crashed,        \* the process was killed (abort, segmentation fault)
    pc,             \* where the caller is: "idle", "asm" (in getAssembly), "eval"
    res,            \* getAssembly's local std::string res
    returned,       \* the last call that returned ("none" before it) and its value
    processed,      \* history: the input nodes of the current call, handled so far
    trace,          \* history: the events of the node handled last
    ncalls,         \* number of calls made (bounded)
    nnodes,         \* number of input nodes handled (bounded)
    hostSymbols     \* the symbols the host process provides to JIT-compiled code

vars == <<module, functionProtos, namedValues, lastValue, lastFunction, builder,
          passManager, jitTopLevel, debug, evaluationRes, jit, crashed, pc, res,
          returned, processed, trace, ncalls, nnodes, hostSymbols>>

-----------------------------------------------------------------------------
(* Bounds of the model *)

\* Input nodes handled by one visitor, over all its calls.
MaxNodes == 3
\* Calls of getAssembly / evaluate made on one visitor.
MaxCalls == 2
\* Input nodes of the one call of SpecLowering.
MaxLoweringNodes == 2

-----------------------------------------------------------------------------
(* LLVM values *)

\* A value name: the name asked for is <<base, 0>>.
VName(base) == <<base, 0>>
NoName == <<"", 0>>

\* llvm::Value*: k is the kind, n an id (or the number of a constant), s its name.
Val(k, n, s) == [k |-> k, n |-> n, s |-> s]
\* nullptr
NullV == Val("null", 0, NoName)
\* What an operation with undefined behaviour leaves when it does not crash.
GarbageV == Val("garbage", 0, NoName)
IsNull(v) == v.k = "null"
\* llvm::ConstantFP::get(*context, llvm::APFloat(c))
ConstV(c) == Val("const", c, NoName)
IsConst(v) == v.k = "const"
\* A basic block as an operand of a branch.
BlockV(id) == Val("bb", id, NoName)
\* A function as the callee of a call: fk is its key (name) in the module.
FnV(fk) == Val("fn", fk[2], fk)

\* llvm::Function* lastFunction: a key of the module's functions, or nullptr.
NoFn == <<"", 0>>
\* An llvm::Function of the module: the name asked for (suffix 0).
FnKey(name) == <<name, 0>>

\* An instruction: op, result value id, name, operands, and (history) the path
\* of the AST node whose visit emitted it.
Instr(op, id, s, args, by) == [op |-> op, id |-> id, s |-> s, args |-> args, by |-> by]
IsTerminator(i) == i.op \in {"br", "condbr", "ret"}

-----------------------------------------------------------------------------
(* Functions and basic blocks *)

\* The name LLVM's symbol table gives a value asked to be named base in a
\* function whose names in use are used.
UniqueName(used, base) ==
    IF VName(base) \notin used THEN VName(base)
    ELSE LET k == CHOOSE k \in 1..(Cardinality(used) + 1) :
                      /\ <<base, k>> \notin used
                      /\ \A j \in 1..(k - 1) : <<base, j>> \in used
         IN <<base, k>>

\* llvm::Function::Create(signature, ExternalLinkage, name, module) followed by
\* setName on each argument: a declaration, without basic blocks.
NewFunction(args) ==
    [ arity  |-> Len(args),
      args   |-> [i \in 1..Len(args) |->
                    UniqueName({VName(args[j]) : j \in 1..(i - 1)}, args[i])],
      layout |-> <<>>,      \* the blocks of the function, in order
      blocks |-> <<>>,      \* every block created for it (id -> block), appended or not
      nval   |-> 0,         \* ids given to instructions
      used   |-> {UniqueName({VName(args[j]) : j \in 1..(i - 1)}, args[i])
                    : i \in 1..Len(args)},
      ran    |-> <<>> ]     \* the pass lists run on it, in order

\* The key a new function asked to be named name gets in module m: LLVM renames
\* a second function of the same name.
UniqueFnKey(m, name) ==
    IF FnKey(name) \notin DOMAIN m THEN FnKey(name)
    ELSE LET k == CHOOSE k \in 1..(Cardinality(DOMAIN m) + 1) :
                      /\ <<name, k>> \notin DOMAIN m
                      /\ \A j \in 1..(k - 1) : <<name, j>> \in DOMAIN m
         IN <<name, k>>

\* m with key k bound to v (m a function with any domain).
Put(m, k, v) == [x \in DOMAIN m \cup {k} |-> IF x = k THEN v ELSE m[x]]
\* m without key k.
Drop(m, k) == [x \in DOMAIN m \ {k} |-> m[x]]
EmptyMap == [x \in {} |-> 0]

-----------------------------------------------------------------------------
(* AST nodes (compiler_lib/include/ast.h) *)

\* A null entry of the input list.
NullNode == [t |-> "Null"]
NumberExprAST(val) == [t |-> "Number", val |-> val]
VariableExprAST(name) == [t |-> "Variable", name |-> name]
UnaryExprAST(opcode, expr) == [t |-> "Unary", opcode |-> opcode, expr |-> expr]
BinaryExprAST(leftExpr, rightExpr, op) ==
    [t |-> "Binary", op |-> op, leftExpr |-> leftExpr, rightExpr |-> rightExpr]
\* vars: a sequence of pairs <<name, initializer>>, the initializer NullNode when absent.
DeclarationExprAST(body, declared) == [t |-> "Declaration", vars |-> declared, body |-> body]
CallExprAST(callee, args) == [t |-> "Call", callee |-> callee, args |-> args]
\* The three-argument constructor sets haveElse, the two-argument one clears it.
IfExprAST(cond, ifExpr, elseExpr) ==
    [t |-> "If", cond |-> cond, ifExpr |-> ifExpr, elseExpr |-> elseExpr, haveElse |-> TRUE]
IfExprASTNoElse(cond, ifExpr) ==
    [t |-> "If", cond |-> cond, ifExpr |-> ifExpr, elseExpr |-> NullNode, haveElse |-> FALSE]
ForExprAST(start, step, end, body, varName) ==
    [t |-> "For", varName |-> varName, start |-> start, step |-> step, end |-> end,
     body |-> body]
PrototypeAST(name, args) == [t |-> "Prototype", name |-> name, args |-> args]
FunctionAST(proto, body) == [t |-> "Function", proto |-> proto, body |-> body]

\* The reserved name of a wrapped top-level expression.
AnonExpr == "__anon_expr"

-----------------------------------------------------------------------------
(* The visitor state and the history of a visit *)

\* The members of the CodeGenVisitor as a record (plus the outcome ub picked for
\* undefined behaviour in this step, ret, the value a helper returns, and host, the
\* symbols of the host process).
Members ==
    [ module |-> module, functionProtos |-> functionProtos, namedValues |-> namedValues,
      lastValue |-> lastValue, lastFunction |-> lastFunction, builder |-> builder,
      passManager |-> passManager, jitTopLevel |-> jitTopLevel, debug |-> debug,
      evaluationRes |-> evaluationRes, jit |-> jit, crashed |-> crashed,
      trace |-> <<>>, ub |-> "crash", ret |-> NullV, host |-> hostSymbols ]

\* The builder has no insertion point.
NoIP == [fn |-> NoFn, blk |-> 0]
NoInstr == Instr("", 0, NoName, <<>>, <<>>)

\* An event of the history: e is its kind ("enter" and "exit" of the visit of the
\* node at path p, "emit" of an instruction, "block" created, "error" logged, "run"
\* of the pass manager, "undefined" behaviour), with
\* lastValue, namedValues, lastFunction and jitTopLevel as they are at the event.
Ev(st, e, p, node, ins, msg) ==
    [e |-> e, p |-> p, node |-> node, lv |-> st.lastValue, nv |-> st.namedValues,
     lf |-> st.lastFunction, jt |-> st.jitTopLevel, ins |-> ins, msg |-> msg]
Log(st, e, p, node, ins, msg) ==
    [st EXCEPT !.trace = Append(@, Ev(st, e, p, node, ins, msg))]

\* logErrorV(msg): writes msg to stderr and returns nullptr.
logErrorV(st, msg, p) == Log(st, "error", p, NullNode, NoInstr, msg)

\* An operation whose behaviour is undefined: the process dies, or goes on.
Undefined(st, p, msg) ==
    LET s1 == Log(st, "undefined", p, NullNode, NoInstr, msg)
    IN IF st.ub = "crash" THEN [s1 EXCEPT !.crashed = TRUE] ELSE s1

-----------------------------------------------------------------------------
(* The IR builder *)

\* builder->GetInsertBlock()->getParent()
GetInsertFunction(st) == st.builder.fn

\* fn with instruction ins added to block blk: at its end (the builder's insertion
\* point), or at its beginning (createEntryBlockAlloca's temporary builder).
AddInstr(fn, blk, ins, front) ==
    [fn EXCEPT !.blocks[blk].instrs = IF front THEN <<ins>> \o @ ELSE Append(@, ins),
               !.nval = @ + 1,
               !.used = IF ins.s = NoName THEN @ ELSE @ \cup {ins.s}]

\* Create an instruction op named base (the empty string: unnamed) in block blk of
\* function fk; ret is its result.
CreateIn(st, fk, blk, op, base, args, p, front) ==
    LET fn == st.module[fk]
        nm == IF base = "" THEN NoName ELSE UniqueName(fn.used, base)
        ins == Instr(op, fn.nval + 1, nm, args, p)
        s1 == [st EXCEPT !.module[fk] = AddInstr(fn, blk, ins, front),
                         !.ret = Val(IF op = "alloca" THEN "alloca" ELSE "inst",
                                     fn.nval + 1, nm)]
    IN Log(s1, "emit", p, NullNode, ins, "")

\* builder->CreateX(...): an instruction at the insertion point.
Create(st, op, base, args, p) ==
    CreateIn(st, st.builder.fn, st.builder.blk, op, base, args, p, FALSE)

\* What the builder's constant folder makes of op on two constants (a double is
\* modelled by an integer; a division by zero by 0).
Fold(op, a, b) ==
    CASE op = "fadd" -> a + b
      [] op = "fsub" -> a - b
      [] op = "fmul" -> a * b
      [] op = "fdiv" -> IF b = 0 THEN 0 ELSE a \div b
      [] op = "fcmp ult" -> IF a < b THEN 1 ELSE 0
      [] op = "fcmp one" -> IF a # b THEN 1 ELSE 0
      [] OTHER -> a

\* builder->CreateFAdd / FSub / FMul / FDiv / FCmpULT / FCmpONE (lv, rv, name): folded
\* to a constant, without an instruction, when both operands are constants.
CreateBinOp(st, op, lv, rv, base, p) ==
    IF IsConst(lv) /\ IsConst(rv)
    THEN [st EXCEPT !.ret = ConstV(Fold(op, lv.n, rv.n))]
    ELSE Create(st, op, base, <<lv, rv>>, p)

\* builder->CreateUIToFP(v, double, name)
CreateUIToFP(st, v, base, p) ==
    IF IsConst(v) THEN [st EXCEPT !.ret = v] ELSE Create(st, "uitofp", base, <<v>>, p)

\* llvm::BasicBlock::Create(*context, label, function): a block appended to the
\* function fk when attach, detached otherwise; ret.n is its id.
CreateBlock(st, fk, label, attach, p) ==
    LET fn == st.module[fk]
        id == Len(fn.blocks) + 1
        nm == IF attach THEN UniqueName(fn.used, label) ELSE VName(label)
        fn1 == [fn EXCEPT !.blocks = Append(@, [label |-> nm, instrs |-> <<>>]),
                          !.layout = IF attach THEN Append(@, id) ELSE @,
                          !.used = IF attach THEN @ \cup {nm} ELSE @]
        s1 == [st EXCEPT !.module[fk] = fn1, !.ret = BlockV(id)]
    IN Log(s1, "block", p, NullNode, Instr("block", id, nm, <<>>, p), "")

\* function->getBasicBlockList().push_back(bb)
PushBackBlock(st, fk, id) ==
    LET fn == st.module[fk]
        nm == UniqueName(fn.used, fn.blocks[id].label[1])
    IN [st EXCEPT !.module[fk] = [fn EXCEPT !.layout = Append(@, id),
                                            !.blocks[id].label = nm,
                                            !.used = @ \cup {nm}]]

\* builder->SetInsertPoint(bb)
SetInsertPoint(st, fk, id) == [st EXCEPT !.builder = [fn |-> fk, blk |-> id]]

\* createEntryBlockAlloca(function, varName): an alloca named varName at the
\* beginning of the function's entry block.
createEntryBlockAlloca(st, fk, varName, p) ==
    CreateIn(st, fk, st.module[fk].layout[1], "alloca", varName, <<>>, p, TRUE)

\* namedValues[name] (std::map::operator[]): the slot bound to name, nullptr when
\* there is none; and the map after the access, which inserts a null entry.
NamedValue(st, name) ==
    IF VName(name) \in DOMAIN st.namedValues THEN st.namedValues[VName(name)] ELSE NullV
Accessed(st, name) ==
    IF VName(name) \in DOMAIN st.namedValues THEN st
    ELSE [st EXCEPT !.namedValues = Put(@, VName(name), NullV)]

\* A function the verifier accepts: every block ends with its only terminator, and
\* every branch goes to a block of the function.
WellFormed(fn) ==
    \A j \in 1..Len(fn.layout) :
        LET is == fn.blocks[fn.layout[j]].instrs
        IN /\ Len(is) > 0
           /\ IsTerminator(is[Len(is)])
           /\ \A x \in 1..(Len(is) - 1) : ~IsTerminator(is[x])
           /\ \A x \in 1..Len(is[Len(is)].args) :
                  is[Len(is)].args[x].k = "bb" =>
                      \E y \in 1..Len(fn.layout) : fn.layout[y] = is[Len(is)].args[x].n

-----------------------------------------------------------------------------
(* The lowering rules: CodeGenVisitor::visit                                *)
(*                                                                         *)
(* A visit method is a chain of operators, one for each stretch of the     *)
(* method between two calls whose result it needs: an operator gets the    *)
(* state the previous stretch left (ret is what the last call returned)    *)
(* and the method's local variables, and hands both to the next one.       *)

RECURSIVE accept(_, _, _)
RECURSIVE getFunction(_, _, _)
RECURSIVE visitAssignmentStore(_, _, _)
RECURSIVE visitBinaryRight(_, _, _)
RECURSIVE visitBinaryBoth(_, _, _, _)
RECURSIVE visitBinaryOp(_, _, _, _, _)
RECURSIVE visitBinaryCall(_, _, _, _)
RECURSIVE visitUnaryOperand(_, _, _)
RECURSIVE visitUnaryCall(_, _, _)
RECURSIVE visitDeclarationVars(_, _, _, _, _, _)
RECURSIVE visitDeclarationInit(_, _, _, _, _, _)
RECURSIVE visitDeclarationInitDone(_, _, _, _, _, _, _)
RECURSIVE visitDeclarationBind(_, _, _, _, _, _, _, _)
RECURSIVE visitDeclarationBody(_, _, _)
RECURSIVE visitDeclarationRestore(_, _)
RECURSIVE visitCallArgs(_, _, _, _, _)
RECURSIVE visitCallArg(_, _, _, _, _)
RECURSIVE visitCallCallee(_, _, _)
RECURSIVE visitCallEmit(_, _, _)
RECURSIVE visitIfCond(_, _, _)
RECURSIVE visitIfThenBB(_, _, _, _)
RECURSIVE visitIfElseBB(_, _, _, _)
RECURSIVE visitIfMergeBB(_, _, _, _)
RECURSIVE visitIfThen(_, _, _, _)
RECURSIVE visitIfThenDone(_, _, _, _)
RECURSIVE visitIfElse(_, _, _, _)
RECURSIVE visitIfElseDone(_, _, _, _)
RECURSIVE visitIfMerge(_, _, _, _)
RECURSIVE visitForStart(_, _, _, _)
RECURSIVE visitForStore(_, _, _, _)
RECURSIVE visitForLoopBB(_, _, _, _)
RECURSIVE visitForBody(_, _, _, _)
RECURSIVE visitForStep(_, _, _, _)
RECURSIVE visitForNext(_, _, _, _)
RECURSIVE visitForEnd(_, _, _, _)
RECURSIVE visitForAfterBB(_, _, _, _)
RECURSIVE visitForRestore(_, _, _, _)
RECURSIVE visitFunctionArgs(_, _, _, _, _)
RECURSIVE visitFunctionArg(_, _, _, _, _)
RECURSIVE visitFunctionAST(_, _, _)
RECURSIVE visitPrototypeAST(_, _, _)

\* The path of a child of the node at path p.
Child(p, role) == Append(p, role)
ArgRole(i) == <<"arg1", "arg2", "arg3">>[i]
InitRole(i) == <<"init1", "init2", "init3">>[i]

\* The visit failed, or the process died: the caller returns at once.
Stop(st) == st.crashed \/ IsNull(st.lastValue)

\* lastValue = v
SetLast(st, v) == [st EXCEPT !.lastValue = v]
\* lastValue = (what the last builder call returned)
TakeRet(st) == [st EXCEPT !.lastValue = st.ret]
\* After undefined behaviour that did not kill the process: lastValue is garbage.
GoOn(st) == IF st.crashed THEN st ELSE SetLast(st, GarbageV)
\* namedValues[name] = v
Bind(st, name, v) == [st EXCEPT !.namedValues = Put(@, VName(name), v)]

\* if (oldVar) namedValues[name] = oldVar; else namedValues.erase(name);
RestoreBinding(st, name, oldVar) ==
    [st EXCEPT !.namedValues = IF ~IsNull(oldVar) THEN Put(@, VName(name), oldVar)
                               ELSE Drop(@, VName(name))]
\* builder->CreateUIToFP of what the last builder call returned.
CreateUIToFPRet(st, base, p) == CreateUIToFP(st, st.ret, base, p)
\* builder->CreateStore of what the last builder call returned, to ptr.
StoreRet(st, ptr, p) == Create(st, "store", "", <<st.ret, ptr>>, p)

\* std::string("binary") + op and std::string("unary") + opcode
BinaryName(op) ==
    CASE op = "|" -> "binary|"
      [] op = ":" -> "binary:"
      [] op = "&" -> "binary&"
      [] OTHER -> "binary?"
UnaryName(opcode) ==
    CASE opcode = "!" -> "unary!"
      [] opcode = "-" -> "unary-"
      [] OTHER -> "unary?"

visitNumberExprAST(st, node, p) == SetLast(st, ConstV(node.val))

\* visit(VariableExprAST&): lastValue = logErrorV(...) is not followed by a return,
\* so that CreateLoad is called with the null varAddress.
visitVariableExprAST(st, node, p) ==
    IF IsNull(NamedValue(st, node.name))
    THEN GoOn(Undefined(SetLast(logErrorV(Accessed(st, node.name),
                                          "Unknown variable name", p), NullV),
                        p, "CreateLoad(nullptr)"))
    ELSE TakeRet(Create(Accessed(st, node.name), "load", node.name,
                        <<NamedValue(st, node.name)>>, p))

\* The special case of visit(BinaryExprAST&): op is '='.
visitAssignment(st, node, p) ==
    IF node.leftExpr.t # "Variable"
    THEN SetLast(logErrorV(st, "destination of '=' must be a variable", p), NullV)
    ELSE visitAssignmentStore(accept(st, node.rightExpr, Child(p, "r")), node, p)

\* ... after the right operand was emitted: st.lastValue is rv.
visitAssignmentStore(st, node, p) ==
    IF Stop(st) THEN st
    ELSE IF IsNull(NamedValue(st, node.leftExpr.name))
    THEN SetLast(logErrorV(Accessed(st, node.leftExpr.name), "Unknown variable name", p),
                 NullV)
    ELSE SetLast(Create(Accessed(st, node.leftExpr.name), "store", "",
                        <<st.lastValue, NamedValue(st, node.leftExpr.name)>>, p),
                 st.lastValue)

visitBinaryExprAST(st, node, p) ==
    IF node.op = "=" THEN visitAssignment(st, node, p)
    ELSE visitBinaryRight(accept(st, node.leftExpr, Child(p, "l")), node, p)

\* ... after the left operand was emitted: st.lastValue is lv, null or not.
visitBinaryRight(st, node, p) ==
    IF st.crashed THEN st
    ELSE visitBinaryBoth(accept(st, node.rightExpr, Child(p, "r")), st.lastValue, node, p)

\* ... after the right operand was emitted: st.lastValue is rv.
visitBinaryBoth(st, lv, node, p) ==
    IF st.crashed THEN st
    ELSE IF IsNull(lv) \/ IsNull(st.lastValue) THEN SetLast(st, NullV)
    ELSE visitBinaryOp(st, node, lv, st.lastValue, p)

\* The switch of visit(BinaryExprAST&).
visitBinaryOp(st, node, lv, rv, p) ==
    CASE node.op = "+" -> TakeRet(CreateBinOp(st, "fadd", lv, rv, "addtmp", p))
      [] node.op = "-" -> TakeRet(CreateBinOp(st, "fsub", lv, rv, "subtmp", p))
      [] node.op = "*" -> TakeRet(CreateBinOp(st, "fmul", lv, rv, "multmp", p))
      [] node.op = "/" -> TakeRet(CreateBinOp(st, "fdiv", lv, rv, "divtmp", p))
      [] node.op = "<" ->
            TakeRet(CreateUIToFPRet(CreateBinOp(st, "fcmp ult", lv, rv, "cmptmp", p),
                                    "booltmp", p))
      [] OTHER -> visitBinaryCall(getFunction(st, BinaryName(node.op), p), lv, rv, p)

\* The call of a user-defined binary operator: st.ret is f.
visitBinaryCall(st, lv, rv, p) ==
    IF st.ret = NoFn
    THEN \* assert(f && "binary operator not found")
         GoOn(Undefined(st, p, "binary operator not found"))
    ELSE TakeRet(Create(st, "call", "binop", <<FnV(st.ret), lv, rv>>, p))

visitUnaryExprAST(st, node, p) ==
    visitUnaryOperand(accept(st, node.expr, Child(p, "e")), node, p)

\* ... after the operand was emitted: st.lastValue is expr.
visitUnaryOperand(st, node, p) ==
    IF Stop(st) THEN st
    ELSE visitUnaryCall(getFunction(st, UnaryName(node.opcode), p), st.lastValue, p)

\* The call of a user-defined unary operator: st.ret is f.
visitUnaryCall(st, expr, p) ==
    IF st.ret = NoFn
    THEN GoOn(Undefined(st, p, "binary operator not found"))
    ELSE TakeRet(Create(st, "call", "binop", <<FnV(st.ret), expr>>, p))

\* The first loop of visit(DeclarationExprAST&), from the i-th variable on;
\* ret.ok is false when the loop returned from the visit.
visitDeclarationVars(st, node, i, oldBindings, function, p) ==
    IF i > Len(node.vars) THEN [st EXCEPT !.ret = [ok |-> TRUE, old |-> oldBindings]]
    ELSE visitDeclarationInit(createEntryBlockAlloca(st, function, node.vars[i][1], p),
                              node, i, oldBindings, function, p)

\* ... after the alloca of the i-th variable: st.ret is alloca.
visitDeclarationInit(st, node, i, oldBindings, function, p) ==
    IF node.vars[i][2].t # "Null"
    THEN visitDeclarationInitDone(accept(st, node.vars[i][2], Child(p, InitRole(i))),
                                  st.ret, node, i, oldBindings, function, p)
    ELSE visitDeclarationBind(st, ConstV(0), st.ret, node, i, oldBindings, function, p)

\* ... after the initializer was emitted: st.lastValue is varVal.
visitDeclarationInitDone(st, alloca, node, i, oldBindings, function, p) ==
    IF Stop(st) THEN [st EXCEPT !.ret = [ok |-> FALSE, old |-> oldBindings]]
    ELSE visitDeclarationBind(st, st.lastValue, alloca, node, i, oldBindings, function, p)

\* ... the store, oldBindings.push_back(namedValues[name]), namedValues[name] = alloca.
visitDeclarationBind(st, varVal, alloca, node, i, oldBindings, function, p) ==
    visitDeclarationVars(
        Bind(Create(st, "store", "", <<varVal, alloca>>, p), node.vars[i][1], alloca),
        node, i + 1, Append(oldBindings, NamedValue(st, node.vars[i][1])), function, p)

\* namedValues.clear() and the loop that restores oldBindings: each non-null
\* alloca is bound again, under alloca->getName().
RestoredBindings(oldBindings) ==
    LET live == {i \in 1..Len(oldBindings) : ~IsNull(oldBindings[i])}
        last(k) == CHOOSE i \in live :
                       /\ oldBindings[i].s = k
                       /\ \A j \in live : oldBindings[j].s = k => j <= i
    IN [k \in {oldBindings[i].s : i \in live} |-> oldBindings[last(k)]]

visitDeclarationExprAST(st, node, p) ==
    visitDeclarationBody(
        visitDeclarationVars(st, node, 1, <<>>, GetInsertFunction(st), p), node, p)

\* ... after the loop over the variables: st.ret.old is oldBindings.
visitDeclarationBody(st, node, p) ==
    IF ~st.ret.ok THEN st
    ELSE visitDeclarationRestore(accept(st, node.body, Child(p, "body")), st.ret.old)

\* ... after the body was emitted.
visitDeclarationRestore(st, oldBindings) ==
    IF Stop(st) THEN st
    ELSE [st EXCEPT !.namedValues = RestoredBindings(oldBindings)]

\* The loop over the arguments of visit(CallExprAST&), from the i-th on.
visitCallArgs(st, node, i, argsVals, p) ==
    IF i > Len(node.args) THEN [st EXCEPT !.ret = [ok |-> TRUE, vals |-> argsVals]]
    ELSE visitCallArg(accept(st, node.args[i], Child(p, ArgRole(i))), node, i, argsVals, p)

\* ... after the i-th argument was emitted.
visitCallArg(st, node, i, argsVals, p) ==
    IF Stop(st) THEN [st EXCEPT !.ret = [ok |-> FALSE, vals |-> argsVals]]
    ELSE visitCallArgs(st, node, i + 1, Append(argsVals, st.lastValue), p)

visitCallExprAST(st, node, p) == visitCallCallee(getFunction(st, node.callee, p), node, p)

\* ... after getFunction(node.getCallee()): st.ret is calleeF.
visitCallCallee(st, node, p) ==
    IF st.ret = NoFn
    THEN SetLast(logErrorV(st, "Function not found", p), NullV)
    ELSE IF st.module[st.ret].arity # Len(node.args)
    THEN SetLast(logErrorV(st, "Invalid number of arguments", p), NullV)
    ELSE visitCallEmit(visitCallArgs(st, node, 1, <<>>, p), st.ret, p)

\* ... after the loop over the arguments: st.ret.vals is argsVals.
visitCallEmit(st, calleeF, p) ==
    IF ~st.ret.ok THEN st
    ELSE TakeRet(Create(st, "call", "calltmp", <<FnV(calleeF)>> \o st.ret.vals, p))

\* The local variables of visit(IfExprAST&).
IfLocals ==
    [ condVal |-> NullV, function |-> NoFn, thenBB |-> 0, elseBB |-> 0, mergeBB |-> 0,
      thenExpr |-> NullV, thenEnd |-> 0, elseExpr |-> NullV ]

visitIfExprAST(st, node, p) == visitIfCond(accept(st, node.cond, Child(p, "cond")), node, p)

\* ... after the condition was emitted: the comparison with 0.0.
visitIfCond(st, node, p) ==
    IF Stop(st) THEN st
    ELSE visitIfThenBB(CreateBinOp(st, "fcmp one", st.lastValue, ConstV(0), "ifcond", p),
                       [IfLocals EXCEPT !.function = GetInsertFunction(st)], node, p)

\* ... the three blocks: then is inserted in the function, else and ifcont are not.
visitIfThenBB(st, l, node, p) ==
    visitIfElseBB(CreateBlock(st, l.function, "then", TRUE, p),
                  [l EXCEPT !.condVal = st.ret], node, p)
visitIfElseBB(st, l, node, p) ==
    visitIfMergeBB(CreateBlock(st, l.function, "else", FALSE, p),
                   [l EXCEPT !.thenBB = st.ret.n], node, p)
visitIfMergeBB(st, l, node, p) ==
    visitIfThen(CreateBlock(st, l.function, "ifcont", FALSE, p),
                [l EXCEPT !.elseBB = st.ret.n], node, p)

\* ... CreateCondBr, and the then expression emitted in the then block.
visitIfThen(st, l, node, p) ==
    visitIfThenDone(
        accept(SetInsertPoint(Create(st, "condbr", "",
                                     <<l.condVal, BlockV(l.thenBB), BlockV(l.elseBB)>>, p),
                              l.function, l.thenBB),
               node.ifExpr, Child(p, "then")),
        [l EXCEPT !.mergeBB = st.ret.n], node, p)

\* ... after the then expression was emitted: the branch to ifcont.
visitIfThenDone(st, l, node, p) ==
    IF Stop(st) THEN st
    ELSE visitIfElse(Create(st, "br", "", <<BlockV(l.mergeBB)>>, p),
                     [l EXCEPT !.thenExpr = st.lastValue], node, p)

\* ... thenBB = builder->GetInsertBlock(); the else block is appended to the
\* function and made the insertion point.  Without an else, the result of
\* logErrorV is dropped and the visit returns: lastValue stays thenExpr.
visitIfElse(st, l, node, p) ==
    IF node.haveElse
    THEN visitIfElseDone(
             accept(SetInsertPoint(PushBackBlock(st, l.function, l.elseBB),
                                   l.function, l.elseBB),
                    node.elseExpr, Child(p, "else")),
             [l EXCEPT !.thenEnd = st.builder.blk], node, p)
    ELSE logErrorV(SetInsertPoint(PushBackBlock(st, l.function, l.elseBB),
                                  l.function, l.elseBB),
                   "Omitted Else are not supported yet", p)

\* ... after the else expression was emitted: the branch to ifcont.
visitIfElseDone(st, l, node, p) ==
    IF Stop(st) THEN st
    ELSE visitIfMerge(Create(st, "br", "", <<BlockV(l.mergeBB)>>, p),
                      [l EXCEPT !.elseExpr = st.lastValue], node, p)

\* ... elseBB = builder->GetInsertBlock(); ifcont is appended and gets the phi.
visitIfMerge(st, l, node, p) ==
    TakeRet(Create(SetInsertPoint(PushBackBlock(st, l.function, l.mergeBB),
                                  l.function, l.mergeBB),
                   "phi", "iftmp",
                   <<l.thenExpr, BlockV(l.thenEnd), l.elseExpr, BlockV(st.builder.blk)>>, p))

\* The local variables of visit(ForExprAST&).
ForLocals ==
    [ function |-> NoFn, alloca |-> NullV, loopBB |-> 0, oldVar |-> NullV,
      stepVal |-> NullV, endCond |-> NullV ]

visitForExprAST(st, node, p) ==
    visitForStart(createEntryBlockAlloca(st, GetInsertFunction(st), node.varName, p),
                  [ForLocals EXCEPT !.function = GetInsertFunction(st)], node, p)

\* ... after the alloca (st.ret): the start expression is emitted.
visitForStart(st, l, node, p) ==
    visitForStore(accept(st, node.start, Child(p, "start")),
                  [l EXCEPT !.alloca = st.ret], node, p)

\* ... after the start expression was emitted: the store and the loop block.
visitForStore(st, l, node, p) ==
    IF Stop(st) THEN st
    ELSE visitForLoopBB(
             CreateBlock(Create(st, "store", "", <<st.lastValue, l.alloca>>, p),
                         l.function, "loop", TRUE, p),
             l, node, p)

\* ... the branch to the loop block (st.ret), which becomes the insertion point;
\* the loop variable is bound to the alloca and the body is emitted.
visitForLoopBB(st, l, node, p) ==
    visitForBody(
        accept(Bind(SetInsertPoint(Create(st, "br", "", <<BlockV(st.ret.n)>>, p),
                                   l.function, st.ret.n),
                    node.varName, l.alloca),
               node.body, Child(p, "body")),
        [l EXCEPT !.loopBB = st.ret.n, !.oldVar = NamedValue(st, node.varName)], node, p)

\* ... after the body was emitted: the step is emitted.
visitForBody(st, l, node, p) ==
    IF Stop(st) THEN st
    ELSE visitForStep(accept(st, node.step, Child(p, "step")), l, node, p)

\* ... after the step was emitted: the load of the loop variable.
visitForStep(st, l, node, p) ==
    IF Stop(st) THEN st
    ELSE visitForNext(Create(st, "load", "", <<l.alloca>>, p),
                      [l EXCEPT !.stepVal = st.lastValue], node, p)

\* A faulty variant of visitForNext, which C9 rejects: the end condition is
\* emitted before the loop variable is advanced.
visitForNextEndFirst(st, l, node, p) ==
    visitForEnd(
        StoreRet(CreateBinOp(accept(st, node.end, Child(p, "end")),
                             "fadd", st.ret, l.stepVal, "nextvar", p),
                 l.alloca, p),
        l, node, p)

\* ... nextVar = curVal (st.ret) + stepVal is stored, and the end condition emitted.
visitForNext(st, l, node, p) ==
    visitForEnd(
        accept(StoreRet(CreateBinOp(st, "fadd", st.ret, l.stepVal, "nextvar", p),
                        l.alloca, p),
               node.end, Child(p, "end")),
        l, node, p)

\* ... after the end condition was emitted: the comparison with 0.0.
visitForEnd(st, l, node, p) ==
    IF Stop(st) THEN st
    ELSE visitForAfterBB(
             CreateBinOp(st, "fcmp one", st.lastValue, ConstV(0), "loopcond", p),
             l, node, p)

\* ... the block after the loop.
visitForAfterBB(st, l, node, p) ==
    visitForRestore(CreateBlock(st, l.function, "afterloop", TRUE, p),
                    [l EXCEPT !.endCond = st.ret], node, p)

\* ... the conditional branch; afterloop (st.ret) becomes the insertion point; the
\* binding of the loop variable is restored, or erased when there was none.
visitForRestore(st, l, node, p) ==
    SetLast(
        RestoreBinding(
            SetInsertPoint(Create(st, "condbr", "",
                                  <<l.endCond, BlockV(l.loopBB), BlockV(st.ret.n)>>, p),
                           l.function, st.ret.n),
            node.varName, l.oldVar),
        ConstV(0))

-----------------------------------------------------------------------------
(* The module, the pass manager and the JIT *)

\* The passes initModuleAndPassManager adds when debug is false, in order.
Passes ==
    <<"PromoteMemoryToRegister", "InstructionCombining", "Reassociate", "GVN",
      "CFGSimplification">>

\* initModuleAndPassManager(): a fresh context, module, builder and pass manager.
initModuleAndPassManager(st) ==
    [st EXCEPT !.module = EmptyMap,
               !.builder = NoIP,
               !.passManager = IF ~st.debug THEN Passes ELSE <<>>]

\* A function with a body.
Defined(fn) == Len(fn.layout) > 0

\* jit->addModule(std::move(module)): the module is compiled and kept by the JIT.
\* Compiling a function the verifier rejects is undefined.
addModule(st, p) ==
    IF \E k \in DOMAIN st.module : Defined(st.module[k]) /\ ~WellFormed(st.module[k])
    THEN Undefined([st EXCEPT !.jit = Append(@, st.module)], p,
                   "addModule: malformed function")
    ELSE [st EXCEPT !.jit = Append(@, st.module)]

\* jit->findSymbol(name): the index of the module added last that defines name, 0
\* when there is none.
findSymbol(js, name) ==
    LET has == {i \in 1..Len(js) : FnKey(name) \in DOMAIN js[i] /\ Defined(js[i][FnKey(name)])}
    IN IF has = {} THEN 0 ELSE CHOOSE i \in has : \A j \in has : j <= i

\* The functions that function fn calls, and those the defined functions of
\* module m call.
CallsOf(fn) ==
    UNION {{fn.blocks[b].instrs[x].args[1].s[1] :
               x \in {x \in 1..Len(fn.blocks[b].instrs) : fn.blocks[b].instrs[x].op = "call"}}
             : b \in 1..Len(fn.blocks)}
Callees(m) == UNION {CallsOf(m[k]) : k \in {k \in DOMAIN m : Defined(m[k])}}

\* exprSymbol.getAddress(): linking module i of the JIT succeeds when every
\* function it calls is defined in a module of the JIT or by the host.
getAddress(js, i, host) ==
    \A name \in Callees(js[i]) : name \in host \/ findSymbol(js, name) # 0

\* fp(): the double the compiled function returns, as the operand of the first
\* ret of the function; garbage when the function was malformed.
RunValue(fn) ==
    LET rets == {<<j, x>> \in (1..Len(fn.layout)) \X (1..fn.nval) :
                    /\ x <= Len(fn.blocks[fn.layout[j]].instrs)
                    /\ fn.blocks[fn.layout[j]].instrs[x].op = "ret"}
        first == CHOOSE r \in rets : \A q \in rets : r[1] <= q[1]
    IN IF ~WellFormed(fn) \/ rets = {} THEN GarbageV
       ELSE fn.blocks[fn.layout[first[1]]].instrs[first[2]].args[1]

-----------------------------------------------------------------------------
(* Prototypes, functions and the JIT handlers *)

RECURSIVE handleTopLevelExtern(_, _, _)
RECURSIVE handleTopLevelExternRecord(_, _)
RECURSIVE handleTopLevelExpression(_, _, _)
RECURSIVE handleTopLevelExpressionSubmit(_, _)
RECURSIVE handleTopLevelExpressionRun(_, _)
RECURSIVE handleTopLevelExpressionCall(_, _, _)
RECURSIVE handleTopLevelDefinition(_, _, _)
RECURSIVE handleTopLevelDefinitionVisit(_, _, _)
RECURSIVE getFunctionProto(_)
RECURSIVE emitFunction(_, _, _)
RECURSIVE emitFunctionEntry(_, _, _)
RECURSIVE emitFunctionArgs(_, _, _, _)
RECURSIVE emitFunctionRet(_, _, _)
RECURSIVE emitFunctionDone(_, _)
RECURSIVE acceptExit(_, _, _)

\* jitTopLevel = false
ClearTopLevel(st) == [st EXCEPT !.jitTopLevel = FALSE]

\* A faulty variant of handleTopLevelExternRecord, which C5 rejects: the
\* prototype is not kept.
handleTopLevelExternForget(st, node) == st

\* handleTopLevelExtern(node)
handleTopLevelExtern(st, node, p) ==
    handleTopLevelExternRecord(accept(ClearTopLevel(st), node, Child(p, "accept")), node)
\* ... functionProtos[node.getName()] = a copy of node
handleTopLevelExternRecord(st, node) ==
    [st EXCEPT !.functionProtos = Put(@, node.name, node)]

\* visit(PrototypeAST&): Function::Create and the names of the arguments.
visitPrototypeAST(st, node, p) ==
    IF st.jitTopLevel THEN handleTopLevelExtern(st, node, p)
    ELSE [st EXCEPT !.module = Put(@, UniqueFnKey(st.module, node.name),
                                   NewFunction(node.args)),
                    !.lastFunction = UniqueFnKey(st.module, node.name)]

\* getFunction(name): ret is the function, NoFn for nullptr.
getFunction(st, name, p) ==
    IF FnKey(name) \in DOMAIN st.module THEN [st EXCEPT !.ret = FnKey(name)]
    ELSE IF name \in DOMAIN st.functionProtos
    THEN getFunctionProto(accept(st, st.functionProtos[name], Child(p, "proto")))
    ELSE [st EXCEPT !.ret = NoFn]
\* ... return this->lastFunction
getFunctionProto(st) == [st EXCEPT !.ret = st.lastFunction]

\* The loop of visit(FunctionAST&) over the arguments of the function, from the
\* i-th on: a stack slot for each, named after the node's i-th argument.
visitFunctionArgs(st, node, i, function, p) ==
    IF i > st.module[function].arity \/ st.crashed THEN st
    ELSE IF i > Len(node.proto.args)
    THEN \* node.getProto()->getArgs()[i] past the end of the vector
         visitFunctionArgs(Undefined(st, p, "getArgs()[i] out of range"), node, i + 1,
                           function, p)
    ELSE visitFunctionArg(createEntryBlockAlloca(st, function, node.proto.args[i], p),
                          node, i, function, p)
\* ... after the alloca (st.ret): the argument is stored and bound.
visitFunctionArg(st, node, i, function, p) ==
    visitFunctionArgs(
        Bind(Create(st, "store", "",
                    <<Val("arg", i, st.module[function].args[i]), st.ret>>, p),
             node.proto.args[i], st.ret),
        node, i + 1, function, p)

\* The passes of the pass manager were run on function: the function keeps the
\* list, and the history gets a "run" event with it.
Ran(st, function, p) ==
    Log([st EXCEPT !.module[function].ran = Append(@, st.passManager)],
        "run", p, NullNode, NoInstr, st.passManager)

\* passManager->run(*function): the passes of the pass manager are run on the
\* function.  Running them on a function the verifier rejects is undefined.
RunPasses(st, function, p) ==
    IF ~WellFormed(st.module[function])
    THEN Undefined(Ran(st, function, p), p, "passManager->run: malformed function")
    ELSE Ran(st, function, p)

\* visit(FunctionAST&) when jitTopLevel is false: the prototype is recorded and
\* the function looked up.
emitFunction(st, node, p) ==
    emitFunctionEntry(
        getFunction([st EXCEPT !.functionProtos = Put(@, node.proto.name, node.proto)],
                    node.proto.name, p),
        node, p)

\* ... the entry block of the function (st.ret).
emitFunctionEntry(st, node, p) ==
    emitFunctionArgs(CreateBlock(st, st.ret, "entry", TRUE, p), st.ret, node, p)

\* ... the block (st.ret) is the insertion point; namedValues.clear(); the
\* arguments; the body.
emitFunctionArgs(st, function, node, p) ==
    emitFunctionRet(
        accept(visitFunctionArgs([SetInsertPoint(st, function, st.ret.n)
                                     EXCEPT !.namedValues = EmptyMap],
                                 node, 1, function, p),
               node.body, Child(p, "body")),
        function, p)

\* ... after the body was emitted: st.lastValue is retVal.
emitFunctionRet(st, function, p) ==
    IF st.crashed THEN st
    ELSE IF ~IsNull(st.lastValue)
    THEN emitFunctionDone(
             RunPasses(Create(st, "ret", "", <<st.lastValue>>, p), function, p), function)
    ELSE [st EXCEPT !.lastFunction = NoFn]

\* A faulty variant of emitFunctionDone, which C12 rejects: the flag is set
\* again once the function is emitted.
emitFunctionDoneRearm(st, function) ==
    IF st.crashed THEN st
    ELSE [st EXCEPT !.lastFunction = function, !.jitTopLevel = TRUE]

\* ... lastFunction = function
emitFunctionDone(st, function) ==
    IF st.crashed THEN st ELSE [st EXCEPT !.lastFunction = function]

\* handleTopLevelExpression(node)
handleTopLevelExpression(st, node, p) ==
    handleTopLevelExpressionSubmit(accept(ClearTopLevel(st), node, Child(p, "accept")), p)

\* ... if (!lastFunction) return; the module goes to the JIT.
handleTopLevelExpressionSubmit(st, p) ==
    IF st.crashed \/ st.lastFunction = NoFn THEN st
    ELSE handleTopLevelExpressionRun(addModule(st, p), p)

\* ... initModuleAndPassManager() and findSymbol("__anon_expr")
handleTopLevelExpressionRun(st, p) ==
    IF st.crashed THEN st
    ELSE handleTopLevelExpressionCall(initModuleAndPassManager(st),
                                      findSymbol(st.jit, AnonExpr), p)

\* A faulty variant of handleTopLevelExpressionCall, which C1 rejects: the value
\* is put in front of evaluationRes.
handleTopLevelExpressionCallFront(st, exprSymbol, p) ==
    IF ~getAddress(st.jit, exprSymbol, st.host)
    THEN Log(st, "error", p, NullNode, NoInstr, "getAddress")
    ELSE [st EXCEPT !.evaluationRes =
                        <<RunValue(st.jit[exprSymbol][FnKey(AnonExpr)])>> \o @]

\* ... getAddress(), and the call of the compiled expression.
handleTopLevelExpressionCall(st, exprSymbol, p) ==
    IF ~getAddress(st.jit, exprSymbol, st.host)
    THEN Log(st, "error", p, NullNode, NoInstr, "getAddress")
    ELSE [st EXCEPT !.evaluationRes =
                        Append(@, RunValue(st.jit[exprSymbol][FnKey(AnonExpr)]))]

\* handleTopLevelDefinition(node)
handleTopLevelDefinition(st, node, p) ==
    handleTopLevelDefinitionVisit(addModule(ClearTopLevel(st), p), node, p)
\* ... initModuleAndPassManager(); node.accept(*this)
handleTopLevelDefinitionVisit(st, node, p) ==
    IF st.crashed THEN st
    ELSE accept(initModuleAndPassManager(st), node, Child(p, "accept"))

visitFunctionAST(st, node, p) ==
    IF st.jitTopLevel /\ node.proto.name = AnonExpr THEN handleTopLevelExpression(st, node, p)
    ELSE IF st.jitTopLevel THEN handleTopLevelDefinition(st, node, p)
    ELSE emitFunction(st, node, p)

\* The visit method of the node's class.
visit(st, node, p) ==
    CASE node.t = "Number" -> visitNumberExprAST(st, node, p)
      [] node.t = "Variable" -> visitVariableExprAST(st, node, p)
      [] node.t = "Unary" -> visitUnaryExprAST(st, node, p)
      [] node.t = "Binary" -> visitBinaryExprAST(st, node, p)
      [] node.t = "Declaration" -> visitDeclarationExprAST(st, node, p)
      [] node.t = "Call" -> visitCallExprAST(st, node, p)
      [] node.t = "If" -> visitIfExprAST(st, node, p)
      [] node.t = "For" -> visitForExprAST(st, node, p)
      [] node.t = "Prototype" -> visitPrototypeAST(st, node, p)
      [] node.t = "Function" -> visitFunctionAST(st, node, p)

\* node->accept(*this); the history gets the visit's enter and exit events.
accept(st, node, p) ==
    IF st.crashed THEN st
    ELSE acceptExit(visit(Log(st, "enter", p, node, NoInstr, ""), node, p), node, p)
acceptExit(st, node, p) ==
    IF st.crashed THEN st ELSE Log(st, "exit", p, node, NoInstr, "")

-----------------------------------------------------------------------------
(* Printing *)

\* A line of printed IR.
Line(op, id, s, args) == Instr(op, id, s, args, <<>>)
ErrorLine == Line("Error during compilation\n", 0, NoName, <<>>)

\* lastFunction->print(stream): the header (define for a function with a body,
\* declare otherwise), the pass lists that were run on the function (they stand
\* for what the passes made of its instructions) and each block's instructions.
RECURSIVE PrintBlocks(_, _)
PrintBlocks(fn, j) ==
    IF j > Len(fn.layout) THEN <<>>
    ELSE LET b == fn.blocks[fn.layout[j]]
         IN <<Line("label", fn.layout[j], b.label, <<>>)>>
            \o [x \in 1..Len(b.instrs) |->
                  Line(b.instrs[x].op, b.instrs[x].id, b.instrs[x].s, b.instrs[x].args)]
            \o PrintBlocks(fn, j + 1)
PrintFunction(fk, fn) ==
    <<Line(IF Defined(fn) THEN "define" ELSE "declare", fn.arity, fk,
           [i \in 1..fn.arity |-> Val("arg", i, fn.args[i])])>>
    \o [x \in 1..Len(fn.ran) |->
          Line("passes", x, NoName, [y \in 1..Len(fn.ran[x]) |-> Val(fn.ran[x][y], y, NoName)])]
    \o PrintBlocks(fn, 1)

\* A faulty variant of ppformat, which C6 rejects: no error line.
ppformatNoError(st) ==
    IF st.lastFunction = NoFn THEN <<>>
    ELSE PrintFunction(st.lastFunction, st.module[st.lastFunction])

\* ppformat()
ppformat(st) ==
    IF st.lastFunction = NoFn THEN <<ErrorLine>>
    ELSE PrintFunction(st.lastFunction, st.module[st.lastFunction])

-----------------------------------------------------------------------------
(* The input nodes *)

Num(n) == NumberExprAST(n)
Var(name) == VariableExprAST(name)
Bin(l, op, r) == BinaryExprAST(l, r, op)
Def(name, args, body) == FunctionAST(PrototypeAST(name, args), body)
Anon(body) == FunctionAST(PrototypeAST(AnonExpr, <<>>), body)

\* def f(a) a + 1
DefF == Def("f", <<"a">>, Bin(Var("a"), "+", Num(1)))
\* def g(a) f(a) * 2
DefG == Def("g", <<"a">>, Bin(CallExprAST("f", <<Var("a")>>), "*", Num(2)))
\* extern sin(a)
ExternSin == PrototypeAST("sin", <<"a">>)
\* 3
AnonNumber == Anon(Num(3))
\* f(2)
AnonCallF == Anon(CallExprAST("f", <<Num(2)>>))
\* sin(0) + 1
AnonCallSin == Anon(Bin(CallExprAST("sin", <<Num(0)>>), "+", Num(1)))
\* f(1, 2): one argument too many for f
AnonArity == Anon(CallExprAST("f", <<Num(1), Num(2)>>))
\* if 1 then 2: no else
AnonNoElse == Anon(IfExprASTNoElse(Num(1), Num(2)))
\* x: no such variable
AnonUnknown == Anon(Var("x"))
\* 1 = 2: the destination is no variable
AnonAssign == Anon(Bin(Num(1), "=", Num(2)))
\* ((1 = 2) + (if 1 then 2 else 3)) | (if 1 then 4 else 5): the left operands fail
AnonBadLeft ==
    Anon(Bin(Bin(Bin(Num(1), "=", Num(2)), "+", IfExprAST(Num(1), Num(2), Num(3))),
             "|", IfExprAST(Num(1), Num(4), Num(5))))
\* var x = 1 in (for i = 0, 1, 1 in (2 = i)): the bodies fail
AnonBadBody ==
    Anon(DeclarationExprAST(
             ForExprAST(Num(0), Num(1), Num(1), Bin(Num(2), "=", Var("i")), "i"),
             <<<<"x", Num(1)>>>>))
\* def v(a) var x = 1 in x + a
DefVar ==
    Def("v", <<"a">>,
        DeclarationExprAST(Bin(Var("x"), "+", Var("a")), <<<<"x", Num(1)>>>>))
\* def w(a) (var a = 1, x in (var a = 2 in a)) + a: a is shadowed twice
DefShadow ==
    Def("w", <<"a">>,
        Bin(DeclarationExprAST(DeclarationExprAST(Var("a"), <<<<"a", Num(2)>>>>),
                               <<<<"a", Num(1)>>, <<"x", NullNode>>>>),
            "+", Var("a")))
\* def h(i) for i = i, i < 2, 1 in (for j = 0, j < i, 1 in i = i + j)
DefFor ==
    Def("h", <<"i">>,
        ForExprAST(Var("i"), Num(1), Bin(Var("i"), "<", Num(2)),
                   ForExprAST(Num(0), Num(1), Bin(Var("j"), "<", Var("i")),
                              Bin(Var("i"), "=", Bin(Var("i"), "+", Var("j"))), "j"),
                   "i"))
\* def k(a) for i = 0, i < 2, 1 in (var x = i in x): a declaration in the body
DefForVar ==
    Def("k", <<"a">>,
        ForExprAST(Num(0), Num(1), Bin(Var("i"), "<", Num(2)),
                   DeclarationExprAST(Var("x"), <<<<"x", Var("i")>>>>), "i"))
\* def binary| (a b) if a then 1 else b
DefBinaryOr ==
    Def("binary|", <<"a", "b">>, IfExprAST(Var("a"), Num(1), Var("b")))
\* 1 | !0: user-defined operators
AnonOperators == Anon(Bin(Num(1), "|", UnaryExprAST("!", Num(0))))

\* The nodes the input lists of Spec are made of (NullNode: a null entry).
DriverNodes ==
    { NullNode, DefF, ExternSin, AnonNumber, AnonCallF, AnonCallSin, AnonArity }

\* The nodes the input lists of SpecLowering are made of.
TopNodes ==
    DriverNodes \cup
    { DefG, AnonNoElse, AnonUnknown, AnonAssign, AnonBadLeft, AnonBadBody, DefVar, DefShadow, DefFor,
      DefForVar, DefBinaryOr, AnonOperators }

\* The outcomes of an operation whose behaviour is undefined.
Outcomes == {"crash", "go"}

-----------------------------------------------------------------------------
(* getAssembly and evaluate *)

\* The visitor after a step that left it as st.
Becomes(st) ==
    /\ module' = st.module
    /\ functionProtos' = st.functionProtos
    /\ namedValues' = st.namedValues
    /\ lastValue' = st.lastValue
    /\ lastFunction' = st.lastFunction
    /\ builder' = st.builder
    /\ passManager' = st.passManager
    /\ jitTopLevel' = st.jitTopLevel
    /\ debug' = st.debug
    /\ evaluationRes' = st.evaluationRes
    /\ jit' = st.jit
    /\ crashed' = st.crashed
    /\ trace' = st.trace

\* The events of the history of kind e at path p.
Events(tr, e, p) == {x \in 1..Len(tr) : tr[x].e = e /\ tr[x].p = p}

\* The visit of the node at path p was left (it returned), with a non-null lastValue.
Left(tr, p) == Events(tr, "exit", p) # {}
LeftWithValue(tr, p) == \E x \in Events(tr, "exit", p) : ~IsNull(tr[x].lv)

\* CodeGenVisitor::CodeGenVisitor(): jitTopLevel(false), debug(false), a new JIT
\* and initModuleAndPassManager().
Constructed ==
    initModuleAndPassManager(
        [ module |-> EmptyMap, functionProtos |-> EmptyMap, namedValues |-> EmptyMap,
          lastValue |-> NullV, lastFunction |-> NoFn, builder |-> NoIP,
          passManager |-> <<>>, jitTopLevel |-> FALSE, debug |-> FALSE,
          evaluationRes |-> <<>>, jit |-> <<>>, crashed |-> FALSE,
          trace |-> <<>>, ub |-> "crash", ret |-> NullV, host |-> {} ])

Init ==
    /\ module = Constructed.module
    /\ functionProtos = Constructed.functionProtos
    /\ namedValues = Constructed.namedValues
    /\ lastValue = Constructed.lastValue
    /\ lastFunction = Constructed.lastFunction
    /\ builder = Constructed.builder
    /\ passManager = Constructed.passManager
    /\ jitTopLevel = Constructed.jitTopLevel
    /\ debug = Constructed.debug
    /\ evaluationRes = Constructed.evaluationRes
    /\ jit = Constructed.jit
    /\ crashed = FALSE
    /\ pc = "idle"
    /\ res = <<>>
    /\ returned = [call |-> "none", value |-> <<>>]
    /\ processed = <<>>
    /\ trace = <<>>
    /\ ncalls = 0
    /\ nnodes = 0
    /\ hostSymbols \in {{}, {"sin"}}

\* A call may start: the caller is between calls and the process is alive.
CanCall == pc = "idle" /\ ~crashed

\* getAssembly(astData, debug) up to its loop.
GetAssemblyEnter(dbg) ==
    /\ CanCall
    /\ debug' = IF dbg THEN TRUE ELSE debug
    /\ res' = <<>>
    /\ pc' = "asm"
    /\ processed' = <<>>
    /\ ncalls' = ncalls + 1
    /\ UNCHANGED <<module, functionProtos, namedValues, lastValue, lastFunction, builder,
                   passManager, jitTopLevel, evaluationRes, jit, crashed, returned, trace,
                   nnodes, hostSymbols>>

\* History of one iteration of getAssembly's loop: the node, whether the emission
\* of its function failed (the visit of the body was left without a value), and
\* the function the module holds for the node after the iteration, printed.
AsmHistory(node, before, st) ==
    LET fk == IF node.t = "Prototype" THEN UniqueFnKey(before, node.name)
              ELSE FnKey(node.proto.name)
    IN [ node |-> node,
         failed |-> node.t = "Function" /\ ~LeftWithValue(st.trace, <<"body">>),
         printed |-> PrintFunction(fk, st.module[fk]) ]

\* The visitor and getAssembly's locals after node->accept(*this) left the
\* visitor as st: res += ppformat().
GetAssemblyVisited(node, st) ==
    /\ Becomes(st)
    /\ res' = IF st.crashed THEN res ELSE res \o ppformat(st)
    /\ processed' = IF st.crashed THEN processed
                    ELSE Append(processed, AsmHistory(node, module, st))

\* One iteration of getAssembly's loop, on node.
GetAssemblyNode(node, ub) ==
    /\ pc = "asm" /\ ~crashed
    /\ IF node = NullNode
       THEN /\ processed' = Append(processed, [node |-> node])
            /\ trace' = <<>>
            /\ UNCHANGED <<module, functionProtos, namedValues, lastValue, lastFunction,
                           builder, passManager, jitTopLevel, debug, evaluationRes, jit,
                           crashed, res>>
       ELSE GetAssemblyVisited(node, accept([Members EXCEPT !.ub = ub], node, <<>>))
    /\ nnodes' = nnodes + 1
    /\ UNCHANGED <<pc, returned, ncalls, hostSymbols>>

\* The end of getAssembly: debug is cleared and res returned.
GetAssemblyReturn ==
    /\ pc = "asm" /\ ~crashed
    /\ debug' = FALSE
    /\ returned' = [call |-> "asm", value |-> res]
    /\ pc' = "idle"
    /\ UNCHANGED <<module, functionProtos, namedValues, lastValue, lastFunction, builder,
                   passManager, jitTopLevel, evaluationRes, jit, crashed, res, processed,
                   trace, ncalls, nnodes, hostSymbols>>

\* evaluate(astData) up to its loop.
EvaluateEnter ==
    /\ CanCall
    /\ evaluationRes' = <<>>
    /\ pc' = "eval"
    /\ processed' = <<>>
    /\ ncalls' = ncalls + 1
    /\ UNCHANGED <<module, functionProtos, namedValues, lastValue, lastFunction, builder,
                   passManager, jitTopLevel, debug, jit, crashed, res, returned, trace,
                   nnodes, hostSymbols>>

\* History of one iteration of evaluate's loop: the node, whether its function was
\* emitted (the visit of the body was left with a value), whether the JIT gave the
\* address of the expression, the value the code the JIT holds for it returns, and
\* how many modules the JIT and how many values evaluationRes got in the iteration.
EvalHistory(node, st) ==
    LET emitted == node.t = "Function" /\ LeftWithValue(st.trace, <<"accept", "body">>)
        sym == findSymbol(st.jit, AnonExpr)
    IN [ node |-> node,
         emitted |-> emitted,
         linked |-> emitted /\ sym # 0 /\ getAddress(st.jit, sym, hostSymbols),
         val |-> IF emitted /\ sym # 0 THEN RunValue(st.jit[sym][FnKey(AnonExpr)])
                 ELSE NullV,
         submitted |-> Len(st.jit) - Len(jit),
         appended |-> Len(st.evaluationRes) - Len(evaluationRes) ]

\* The visitor after node->accept(*this) left it as st.
EvaluateVisited(node, st) ==
    /\ Becomes(st)
    /\ processed' = IF st.crashed THEN processed
                    ELSE Append(processed, EvalHistory(node, st))

\* One iteration of evaluate's loop, on node: jitTopLevel = true and the visit.
EvaluateNode(node, ub) ==
    /\ pc = "eval" /\ ~crashed
    /\ IF node = NullNode
       THEN /\ processed' = Append(processed, [node |-> node])
            /\ trace' = <<>>
            /\ UNCHANGED <<module, functionProtos, namedValues, lastValue, lastFunction,
                           builder, passManager, jitTopLevel, debug, evaluationRes, jit,
                           crashed>>
       ELSE EvaluateVisited(node, accept([Members EXCEPT !.ub = ub, !.jitTopLevel = TRUE],
                                         node, <<>>))
    /\ nnodes' = nnodes + 1
    /\ UNCHANGED <<pc, res, returned, ncalls, hostSymbols>>

\* The end of evaluate: std::move(evaluationRes) is returned.
EvaluateReturn ==
    /\ pc = "eval" /\ ~crashed
    /\ returned' = [call |-> "eval", value |-> evaluationRes]
    /\ evaluationRes' = <<>>
    /\ pc' = "idle"
    /\ UNCHANGED <<module, functionProtos, namedValues, lastValue, lastFunction, builder,
                   passManager, jitTopLevel, debug, jit, crashed, res, processed, trace,
                   ncalls, nnodes, hostSymbols>>

\* Calls of getAssembly and evaluate on one visitor, on lists of DriverNodes.
Next ==
    \/ \E dbg \in BOOLEAN : ncalls < MaxCalls /\ GetAssemblyEnter(dbg)
    \/ \E node \in DriverNodes, ub \in Outcomes :
          nnodes < MaxNodes /\ GetAssemblyNode(node, ub)
    \/ GetAssemblyReturn
    \/ ncalls < MaxCalls /\ EvaluateEnter
    \/ \E node \in DriverNodes, ub \in Outcomes :
          nnodes < MaxNodes /\ EvaluateNode(node, ub)
    \/ EvaluateReturn

Spec == Init /\ [][Next]_vars

\* The first call on a visitor, on a list of any of the nodes.
NextLowering ==
    \/ \E dbg \in BOOLEAN : ncalls = 0 /\ GetAssemblyEnter(dbg)
    \/ \E node \in TopNodes, ub \in Outcomes :
          nnodes < MaxLoweringNodes /\ GetAssemblyNode(node, ub)
    \/ GetAssemblyReturn
    \/ ncalls = 0 /\ EvaluateEnter
    \/ \E node \in TopNodes, ub \in Outcomes :
          nnodes < MaxLoweringNodes /\ EvaluateNode(node, ub)
    \/ EvaluateReturn

SpecLowering == Init /\ [][NextLowering]_vars

-----------------------------------------------------------------------------
(* Properties: evaluate and getAssembly *)

\* The node is a top-level anonymous expression.
IsAnon(node) == node # NullNode /\ node.t = "Function" /\ node.proto.name = AnonExpr

\* The values of the anonymous expressions of the history h of an evaluate call
\* that were emitted and whose address the JIT gave, in the order of h.
RECURSIVE AnonValues(_)
AnonValues(h) ==
    IF h = <<>> THEN <<>>
    ELSE (IF IsAnon(Head(h).node) /\ Head(h).emitted /\ Head(h).linked
          THEN <<Head(h).val>> ELSE <<>>)
         \o AnonValues(Tail(h))

\* C1: what evaluate has collected so far, and what it returns, is the sequence
\* of one value per top-level anonymous expression of the input that was
\* emitted and executed, in input order; definitions, externs and null entries
\* add nothing.
C1_EvaluateReturnsAnonValues ==
    /\ (pc = "eval" /\ ~crashed) => evaluationRes = AnonValues(processed)
    /\ (pc = "idle" /\ returned.call = "eval") => returned.value = AnonValues(processed)

\* C1 happens: evaluate returned two different values for an input of three
\* nodes, one of them a definition.
C1_Witness ==
    /\ pc = "idle" /\ returned.call = "eval"
    /\ Len(processed) = 3 /\ Len(returned.value) = 2
    /\ returned.value[1] # returned.value[2]
    /\ \A i \in 1..2 : returned.value[i] # GarbageV
    /\ \E i \in 1..3 : processed[i].node # NullNode /\ ~IsAnon(processed[i].node)

\* The entry of the history declares function c: as a top-level extern or as a
\* top-level definition; with n arguments.
DeclaresName(h, c) ==
    /\ h.node # NullNode
    /\ \/ h.node.t = "Prototype" /\ h.node.name = c
       \/ h.node.t = "Function" /\ h.node.proto.name = c
Declares(h, c, n) ==
    /\ h.node # NullNode
    /\ \/ h.node.t = "Prototype" /\ h.node.name = c /\ Len(h.node.args) = n
       \/ h.node.t = "Function" /\ h.node.proto.name = c /\ Len(h.node.proto.args) = n

\* The nodes of the current call handled before the node of the trace.
Before == IF crashed \/ processed = <<>> THEN processed
          ELSE SubSeq(processed, 1, Len(processed) - 1)

\* Function c was given with n arguments (and never with another number) by a
\* top-level node of the current call, before the node of the trace.
GivenBefore(c, n) ==
    /\ \E i \in 1..Len(Before) : Declares(Before[i], c, n)
    /\ \A i \in 1..Len(Before) : DeclaresName(Before[i], c) => Declares(Before[i], c, n)

\* The errors a call logs when its callee is not resolved.
CallErrors(p) ==
    {x \in Events(trace, "error", p) :
        trace[x].msg \in {"Function not found", "Invalid number of arguments"}}

\* C5: in evaluate, a call of a function given earlier in the input, with its
\* declared number of arguments, resolves the function, whatever modules were
\* submitted in between; and a call finds no function only when the name is
\* not in functionProtos.
C5_GivenFunctionsResolve ==
    pc = "eval" =>
        \A x \in 1..Len(trace) :
            (trace[x].e = "enter" /\ trace[x].node.t = "Call") =>
                /\ GivenBefore(trace[x].node.callee, Len(trace[x].node.args))
                       => CallErrors(trace[x].p) = {}
                /\ (\E y \in Events(trace, "error", trace[x].p) :
                        trace[y].msg = "Function not found")
                       => trace[x].node.callee \notin DOMAIN functionProtos

\* C5 happens: a call of f was emitted in a module other than the one f was
\* defined in, which the JIT holds.
C5_Witness ==
    /\ pc = "eval" /\ ~crashed /\ Len(processed) >= 2 /\ Len(jit) >= 2
    /\ processed[Len(processed)].node = AnonCallF
    /\ processed[Len(processed)].emitted
    /\ GivenBefore("f", 1)

\* The text getAssembly adds for each entry of the history h of a call.
RECURSIVE Pieces(_)
Pieces(h) ==
    IF h = <<>> THEN <<>>
    ELSE (IF Head(h).node = NullNode THEN <<>>
          ELSE IF Head(h).failed THEN <<ErrorLine>>
          ELSE Head(h).printed)
         \o Pieces(Tail(h))

\* C6: the text getAssembly has built so far, and the text it returns, is the
\* concatenation in input order of one piece per non-null node: the error line
\* when the emission of the node's function failed (the body was left without
\* a value, lastFunction is null), the printed function otherwise.
C6_AssemblyIsConcatenation ==
    /\ (pc = "asm" /\ ~crashed) => res = Pieces(processed)
    /\ (pc = "idle" /\ returned.call = "asm") => returned.value = Pieces(processed)

\* C6 happens: getAssembly returned the text of a null entry, a node whose
\* emission failed and a node that was emitted.
C6_Witness ==
    /\ pc = "idle" /\ returned.call = "asm" /\ Len(processed) = 3
    /\ \E i, j, k \in 1..3 :
          /\ processed[i].node = NullNode
          /\ processed[j].node # NullNode /\ processed[j].failed
          /\ processed[k].node # NullNode /\ processed[k].node.t = "Function"
          /\ ~processed[k].failed
    /\ Len(returned.value) > 3

\* C3: during a getAssembly call with debug set, the pass manager runs no pass
\* on the functions emitted.
C3_DebugRunsNoPass ==
    (pc = "asm" /\ debug /\ processed # <<>>) =>
        \A x \in 1..Len(trace) : trace[x].e = "run" => trace[x].msg = <<>>

\* C7: in evaluate, an anonymous expression whose emission failed adds no
\* module to the JIT and no value to evaluationRes; the nodes after it are
\* handled, and the valid expression 3 contributes its value.
C7_FailedExpressionIsAborted ==
    /\ pc = "eval" =>
          \A i \in 1..Len(processed) :
              /\ (IsAnon(processed[i].node) /\ ~processed[i].emitted)
                     => processed[i].submitted = 0 /\ processed[i].appended = 0
              /\ processed[i].node = AnonNumber
                     => /\ processed[i].emitted /\ processed[i].appended = 1
                        /\ processed[i].val = ConstV(3)
    /\ (pc = "eval" /\ crashed /\ trace # <<>>) => trace[1].node # AnonNumber

-----------------------------------------------------------------------------
(* Properties: the lowering of one node *)

\* Path q is a prefix of path p.
IsPrefix(q, p) == Len(q) <= Len(p) /\ SubSeq(p, 1, Len(q)) = q

\* The bindings of a namedValues map: its entries that are not null.
Live(nv) == [k \in {k \in DOMAIN nv : ~IsNull(nv[k])} |-> nv[k]]

\* The slot name is bound to in nv, nullptr when it is bound to none.
Bound(nv, name) == IF VName(name) \in DOMAIN nv THEN nv[VName(name)] ELSE NullV

\* The first event of kind e at path p.
First(e, p) == CHOOSE x \in Events(trace, e, p) : \A y \in Events(trace, e, p) : x <= y

\* The value an instruction of the history defines.
ResultOf(ins) == Val(IF ins.op = "alloca" THEN "alloca" ELSE "inst", ins.id, ins.s)

\* The messages of the four compile errors.
CompileErrors ==
    { "Unknown variable name", "Invalid number of arguments",
      "destination of '=' must be a variable", "Omitted Else are not supported yet" }

\* C2: the visit of an expression that logs one of the four compile errors is
\* left with a null lastValue, and the visit of the function whose body holds
\* the expression is left with a null lastFunction.
C2_CompileErrorsYieldNull ==
    \A x \in 1..Len(trace) :
        (trace[x].e = "error" /\ trace[x].msg \in CompileErrors) =>
            /\ \A y \in Events(trace, "exit", trace[x].p) : IsNull(trace[y].lv)
            /\ \A y \in 1..Len(trace) :
                   (/\ y > x
                    /\ trace[y].e = "exit"
                    /\ trace[y].node.t = "Function"
                    /\ IsPrefix(trace[y].p, trace[x].p))
                       => trace[y].lf = NoFn

\* C4: when the visit of a Declaration is left with a value, the bindings of
\* namedValues are those that held when the visit was entered.
C4_DeclarationRestoresBindings ==
    \A x, y \in 1..Len(trace) :
        (/\ trace[x].e = "enter" /\ trace[y].e = "exit"
         /\ trace[x].p = trace[y].p
         /\ trace[x].node.t = "Declaration"
         /\ ~IsNull(trace[y].lv))
            => Live(trace[y].nv) = Live(trace[x].nv)

\* C8: when the visit of a For is left with a value, its variable is bound as
\* it was when the visit was entered; and when the visits of its body, step
\* and end are entered, the variable is bound to the slot of the loop.
C8_ForBindsAndRestores ==
    \A x \in 1..Len(trace) :
        (trace[x].e = "enter" /\ trace[x].node.t = "For") =>
            /\ \A y \in Events(trace, "exit", trace[x].p) :
                   ~IsNull(trace[y].lv)
                       => Bound(trace[y].nv, trace[x].node.varName)
                              = Bound(trace[x].nv, trace[x].node.varName)
            /\ \A role \in {"body", "step", "end"} :
                   \A y \in Events(trace, "enter", Child(trace[x].p, role)) :
                       Bound(trace[y].nv, trace[x].node.varName)
                           = ResultOf(trace[First("emit", trace[x].p)].ins)

\* C10: a Binary node whose left operand was left without a value does not
\* visit its right operand; and a Declaration or a For left without a value
\* leaves the bindings of namedValues as they were when it was entered.
C10_NullOperandStopsParent ==
    \A x \in 1..Len(trace) :
        /\ (trace[x].e = "enter" /\ trace[x].node.t = "Binary" /\ trace[x].node.op # "=")
               => ((\E y \in Events(trace, "exit", Child(trace[x].p, "l")) :
                        IsNull(trace[y].lv))
                      => Events(trace, "enter", Child(trace[x].p, "r")) = {})
        /\ (trace[x].e = "enter" /\ trace[x].node.t \in {"Declaration", "For"})
               => \A y \in Events(trace, "exit", trace[x].p) :
                      IsNull(trace[y].lv) => Live(trace[y].nv) = Live(trace[x].nv)

\* The visits of a For that were left with a value.
ForExits ==
    {y \in 1..Len(trace) :
        trace[y].e = "exit" /\ trace[y].node.t = "For" /\ ~IsNull(trace[y].lv)}

\* The instructions the visit of the node at path p emitted itself, in order.
Emits(p) ==
    SelectSeq([x \in 1..Len(trace) |-> x],
              LAMBDA x : trace[x].e = "emit" /\ trace[x].p = p)

\* The emission of the For at path p, whose own instructions are E, is in order.
ForInOrder(p, E) ==
    /\ Len(E) \in {7, 8}
    \* the slot, and the start value stored to it before the loop is entered
    /\ trace[E[1]].ins.op = "alloca"
    /\ First("exit", Child(p, "start")) < E[2]
    /\ trace[E[2]].ins.op = "store"
    /\ trace[E[2]].ins.args
           = <<trace[First("exit", Child(p, "start"))].lv, ResultOf(trace[E[1]].ins)>>
    /\ trace[E[3]].ins.op = "br"
    /\ trace[E[3]].ins.args = <<BlockV(trace[First("block", p)].ins.id)>>
    /\ E[2] < E[3] /\ E[3] < First("enter", Child(p, "body"))
    \* the body, then the step
    /\ First("exit", Child(p, "body")) < First("enter", Child(p, "step"))
    \* then the load, the addition of the step and the store to the slot
    /\ First("exit", Child(p, "step")) < E[4]
    /\ trace[E[4]].ins.op = "load"
    /\ trace[E[4]].ins.args = <<ResultOf(trace[E[1]].ins)>>
    /\ trace[E[5]].ins.op = "fadd"
    /\ trace[E[5]].ins.args
           = <<ResultOf(trace[E[4]].ins), trace[First("exit", Child(p, "step"))].lv>>
    /\ trace[E[6]].ins.op = "store"
    /\ trace[E[6]].ins.args = <<ResultOf(trace[E[5]].ins), ResultOf(trace[E[1]].ins)>>
    /\ E[4] < E[5] /\ E[5] < E[6]
    \* then the end expression, its comparison with 0.0 and the branch
    /\ E[6] < First("enter", Child(p, "end"))
    /\ First("exit", Child(p, "end")) < E[7]
    /\ Len(E) = 8 =>
          /\ trace[E[7]].ins.op = "fcmp one"
          /\ trace[E[7]].ins.args = <<trace[First("exit", Child(p, "end"))].lv, ConstV(0)>>
          /\ trace[E[8]].ins.args[1] = ResultOf(trace[E[7]].ins)
    /\ trace[E[Len(E)]].ins.op = "condbr"
    /\ trace[E[Len(E)]].ins.args[2] = BlockV(trace[First("block", p)].ins.id)

\* C9: the code emitted for a For stores the start value before the loop, and
\* in the loop emits in this order the body, the step, the load, addition and
\* store that advance the slot of the loop variable, the end expression and
\* its comparison with 0.0.
C9_ForEmissionOrder ==
    \A y \in ForExits : ForInOrder(trace[y].p, Emits(trace[y].p))

\* C9 happens: a For nested in a For was emitted, with an end expression that
\* is not a constant.
C9_Witness ==
    /\ ~crashed
    /\ \E y, z \in ForExits :
          /\ IsPrefix(trace[y].p, trace[z].p) /\ trace[y].p # trace[z].p
          /\ Len(Emits(trace[y].p)) = 8
          /\ Len(Emits(trace[z].p)) = 8

-----------------------------------------------------------------------------
(* Properties: the module, the prototypes and the flag *)

\* The top-level externs (bare Prototype nodes) of the history h of a call.
Externs(h) ==
    {h[i].node.name : i \in {i \in 1..Len(h) : /\ h[i].node # NullNode
                                                /\ h[i].node.t = "Prototype"}}

\* C11: between two top-level nodes (no body is being emitted), every function
\* of the current module has an entry of its name in functionProtos (the
\* suffix LLVM gives a second function of the same name left aside), and every
\* extern handled by the current call of getAssembly or evaluate is recorded
\* in functionProtos.
C11_ModuleFunctionsHavePrototypes ==
    ~crashed =>
        /\ \A fk \in DOMAIN module : fk[1] \in DOMAIN functionProtos
        /\ \A name \in Externs(processed) : name \in DOMAIN functionProtos

\* The trace is the history of a node of the current call.
TraceOfCall == trace # <<>> /\ (processed # <<>> \/ crashed)

\* The visits a JIT handler made of its node: node.accept(*this) in
\* handleTopLevelExpression, handleTopLevelDefinition and handleTopLevelExtern.
HandlerVisits ==
    {x \in 1..Len(trace) : /\ trace[x].e = "enter" /\ trace[x].p # <<>>
                           /\ trace[x].p[Len(trace[x].p)] = "accept"}

\* The visits of a prototype that getFunction made to declare it again.
Redeclarations ==
    {x \in 1..Len(trace) : /\ trace[x].e = "enter" /\ trace[x].p # <<>>
                           /\ trace[x].p[Len(trace[x].p)] = "proto"}

\* C12: in evaluate the flag is set when the visit of a top-level Function or
\* Prototype node begins and is false at every later event of the node's
\* history: during the handler's own visit of the node, the emission, every
\* nested visit and the visits getFunction makes of a prototype.  One handler
\* runs for the node, on the node itself; a prototype declared again is created
\* by visit(PrototypeAST&), not by the extern handler (the process may die in a
\* handler before its visit of the node).  In getAssembly the flag is false at
\* every event and no handler runs.  The flag is false between two top-level
\* nodes and when evaluate has returned.
C12_TopLevelFlagIsSingleShot ==
    /\ ~jitTopLevel
    /\ (pc = "eval" /\ TraceOfCall) =>
          /\ trace[1].e = "enter" /\ trace[1].p = <<>> /\ trace[1].jt
          /\ \A x \in 2..Len(trace) : ~trace[x].jt
          /\ Cardinality(HandlerVisits) <= 1
          /\ ~crashed => HandlerVisits # {}
          /\ \A x \in HandlerVisits :
                trace[x].p = <<"accept">> /\ trace[x].node = trace[1].node
          /\ \A x \in Redeclarations :
                /\ trace[x].node.t = "Prototype"
                /\ trace[x + 1].e = "exit" /\ trace[x + 1].p = trace[x].p
    /\ (pc = "asm" /\ TraceOfCall) =>
          /\ \A x \in 1..Len(trace) : ~trace[x].jt
          /\ HandlerVisits = {}

\* C12 happens: evaluate emitted an expression whose callee getFunction had to
\* declare again from its prototype, after an extern or a definition went
\* through its handler earlier in the call.
C12_Witness ==
    /\ pc = "eval" /\ ~crashed /\ Len(processed) >= 2
    /\ IsAnon(processed[Len(processed)].node)
    /\ processed[Len(processed)].emitted
    /\ \E x \in Redeclarations :
          trace[x].node.name # AnonExpr /\ IsPrefix(<<"accept", "body">>, trace[x].p)
    /\ \E i \in 1..(Len(processed) - 1) :
          processed[i].node # NullNode /\ ~IsAnon(processed[i].node)

\* The entry blocks visit(FunctionAST&) created in the history of the node.
EntryBlocks ==
    {x \in 1..Len(trace) : trace[x].e = "block" /\ trace[x].ins.s[1] = "entry"}

\* C13: when visit(FunctionAST&) creates the entry block, the function that
\* getFunction returned has no basic block: the block is the first of the
\* function and keeps the name entry (a function that has blocks has one of
\* that name, and LLVM renames the new one).
C13_EntryBlockOfEmptyFunction ==
    \A x \in EntryBlocks : trace[x].ins.id = 1 /\ trace[x].ins.s = VName("entry")

=============================================================================
